---------------------------- MODULE Spec2Model ----------------------------
(***************************************************************************)
(* A model of the SOCKS 4/4A proxy server of cccxg/socks4.                 *)
(*                                                                         *)
(*   src/cmd/main.go  the wire codec: ParseRequest, Reply.ToBytes          *)
(*   src/server.go    Server.Run, Server.ShutDown, Server.handleConn,      *)
(*                    establishProxy, establishConnect, establishBind,     *)
(*                    transfer                                             *)
(*                                                                         *)
(* Every goroutine is a process of the model: the accept loop (Run), the   *)
(* caller of ShutDown, one handler per accepted connection, the two copy   *)
(* goroutines of a relay and the 120 second timer of a BIND session.  A    *)
(* Go string or []byte is a sequence of byte values.                       *)
(***************************************************************************)
EXTENDS Integers, Sequences, FiniteSets, TLC

(***************************************************************************)
(* Bounds of the model.                                                    *)
(***************************************************************************)
\* connections the main listener hands out over the whole run
MaxConns == 1
\* bytes a client has sent that the handshake read does not return
MaxUnread == 2

(***************************************************************************)
(* Protocol constants, src/cmd/main.go:27-43.                              *)
(***************************************************************************)
Version4 == 4
CmdConnect == 1
CmdBind == 2
Granted == 90
RejectOrFailure == 91
RejectNoIdentd == 92
RejectWrongUserId == 93
NullByte == 0
\* make([]byte, 41), src/server.go:121
ReadBufLen == 41
\* the shortest request ParseRequest accepts, src/cmd/main.go:57
MinRequestLen == 9

(***************************************************************************)
(* Helpers of the Go library the codec calls.                              *)
(***************************************************************************)
RECURSIVE Itoa(_)
\* strconv.Itoa for a non-negative number: its decimal digits as ASCII bytes
Itoa(n) == IF n < 10 THEN <<48 + n>> ELSE Itoa(n \div 10) \o <<48 + (n % 10)>>

\* a variant of BigEndianUint16 that takes the low byte first
LittleEndianUint16(hi, lo) == lo * 256 + hi

\* binary.BigEndian.Uint16
BigEndianUint16(hi, lo) == hi * 256 + lo

\* binary.BigEndian.AppendUint16(b, uint16(v)): the conversion wraps to 16 bits
AppendUint16(b, v) == b \o << (v % 65536) \div 256, (v % 65536) % 256 >>

RECURSIVE BytesSplit(_, _)
\* bytes.Split(s, []byte{sep}): the pieces of s between the separators; a
\* sequence with k separators gives k+1 pieces (empty pieces included)
BytesSplit(s, sep) ==
    IF \A i \in 1..Len(s) : s[i] # sep
    THEN << s >>
    ELSE LET i == CHOOSE j \in 1..Len(s) :
                      s[j] = sep /\ \A k \in 1..(j-1) : s[k] # sep
         IN  << SubSeq(s, 1, i-1) >> \o BytesSplit(SubSeq(s, i+1, Len(s)), sep)

\* net.IPv4(a, b, c, d).String(): the dotted form, as ASCII bytes
IPv4String(a, b, c, d) ==
    Itoa(a) \o <<46>> \o Itoa(b) \o <<46>> \o Itoa(c) \o <<46>> \o Itoa(d)

\* the 12 byte prefix of an IPv4-mapped IPv6 address
V4InV6Prefix == <<0,0,0,0,0,0,0,0,0,0,255,255>>

\* net.IP.To4: a 4 byte address as it is, an IPv4-mapped 16 byte address as
\* its last 4 bytes, nil (the empty sequence) for anything else
To4(ip) ==
    IF Len(ip) = 4 THEN ip
    ELSE IF Len(ip) = 16 /\ SubSeq(ip, 1, 12) = V4InV6Prefix
         THEN SubSeq(ip, 13, 16)
         ELSE << >>

\* net.ParseIP(ip.String()): the address in its 16 byte form
ParseIPOfString(ip) ==
    IF To4(ip) # << >> THEN V4InV6Prefix \o To4(ip) ELSE ip

(***************************************************************************)
(* ParseRequest, src/cmd/main.go:55-99.  err is the error returned:        *)
(* "none", "short" (fewer than 9 bytes), "version", "command" or "v4a".    *)
(***************************************************************************)
NoRequest ==
    [err |-> "none", Version |-> 0, Cmd |-> 0, Port |-> 0,
     Address |-> << >>, IsV4A |-> FALSE, UserId |-> << >>]

\* a variant of V4ASplitOk that expects two pieces, not three
V4ASplitOkTwoPieces(bs) == Len(bs) = 2

\* line 83: the bytes after offset 8 must split into exactly three pieces
V4ASplitOk(bs) == Len(bs) = 3

\* a variant of VersionOk that also takes the versions above 4
VersionOkOrLater(v) == v >= Version4

\* line 62: version != Version4 is refused
VersionOk(v) == v = Version4

ParseRequest(b) ==
    LET n == Len(b) IN
    IF n < MinRequestLen THEN [NoRequest EXCEPT !.err = "short"]
    ELSE IF ~VersionOk(b[1]) THEN [NoRequest EXCEPT !.err = "version"]
    ELSE IF b[2] # CmdConnect /\ b[2] # CmdBind
         THEN [NoRequest EXCEPT !.err = "command", !.Version = Version4]
    ELSE
      LET port == BigEndianUint16(b[3], b[4])
          head == [NoRequest EXCEPT !.Version = Version4, !.Cmd = b[2],
                                    !.Port = port]
      IN
      IF b[5] = 0 /\ b[6] = 0 /\ b[7] = 0 /\ b[8] # 0
      THEN \* SOCKS 4A
           LET bs == BytesSplit(SubSeq(b, 9, n), NullByte) IN
           IF ~V4ASplitOk(bs)
           THEN [head EXCEPT !.err = "v4a", !.IsV4A = TRUE]
           ELSE [head EXCEPT !.IsV4A = TRUE, !.UserId = bs[1],
                             !.Address = bs[2] \o <<58>> \o Itoa(port)]
      ELSE \* SOCKS 4
           [head EXCEPT !.IsV4A = FALSE,
                        !.Address = IPv4String(b[5], b[6], b[7], b[8])
                                      \o <<58>> \o Itoa(port),
                        !.UserId = SubSeq(b, 9, n-1)]

(***************************************************************************)
(* Reply.ToBytes, src/cmd/main.go:109-124.  A Reply built without an IP    *)
(* has the nil IP, the empty sequence.                                     *)
(***************************************************************************)
NilIP == << >>

Reply(cd, port, ip) == [Cd |-> cd, Port |-> port, IP |-> ip]

SanitizeCd(cd) ==
    IF cd # Granted /\ cd # RejectOrFailure /\
       cd # RejectNoIdentd /\ cd # RejectWrongUserId
    THEN RejectOrFailure
    ELSE cd

ToBytes(r) ==
    AppendUint16(<<0, SanitizeCd(r.Cd)>>, r.Port) \o To4(r.IP)


(***************************************************************************)
(* What the environment can supply.                                        *)
(***************************************************************************)
\* 04 01 00 50 07 07 07 07 00: CONNECT to 7.7.7.7:80, empty user id
ReqConnect == <<4, 1, 0, 80, 7, 7, 7, 7, 0>>
\* 04 02 00 50 07 07 07 07 00: BIND, literal form
ReqBind == <<4, 2, 0, 80, 7, 7, 7, 7, 0>>
\* 04 02 00 00 00 00 00 01 00: BIND with DSTIP 0.0.0.1, empty user id
ReqBindSentinel == <<4, 2, 0, 0, 0, 0, 0, 1, 0>>
\* 5 bytes only
ReqShort == <<4, 1, 0, 80, 7>>
\* version byte 5
ReqBadVersion == <<5, 1, 0, 80, 7, 7, 7, 7, 0>>
\* command byte 3
ReqBadCmd == <<4, 3, 0, 80, 7, 7, 7, 7, 0>>

\* what one conn.Read of the handshake can return
Inputs ==
    {ReqConnect, ReqBind, ReqBindSentinel, ReqShort, ReqBadVersion, ReqBadCmd}

\* ports the operating system can give to a listener on ""
EphemeralPorts == {1025, 40000}
\* local ports the operating system can give to a dialed socket
DialPorts == {50000}

IPv4Loopback == <<127, 0, 0, 1>>
IPv6Loopback == <<0,0,0,0,0,0,0,0,0,0,0,0,0,0,0,1>>
\* local addresses a peer connection can have
LocalIPs == {IPv4Loopback, IPv6Loopback}

Conns == 1..MaxConns

(***************************************************************************)
(* State.                                                                  *)
(*   sLis       Server.lis: "nil", "cur" (the listener of the latest call  *)
(*              of Run that listened) or "stale" (the listener of an       *)
(*              earlier call; that call returned, so it is closed)         *)
(*   sClosed    Server.closed                                              *)
(*   sWg        the counter of Server.wg                                   *)
(*   lisState   the listener of the latest call of Run that listened:      *)
(*              "none", "open" or "closed"                                 *)
(*   runPc      the position of the accept loop                            *)
(*   runConn    the conn Accept returned to it (0: none)                   *)
(*   restarted  Run has listened more than once                            *)
(*   nAccepted  connections handed out so far                              *)
(*   sdPc       the position of the one ShutDown call                      *)
(*   crashed    the process died of an unrecovered panic                   *)
(*   sess       per connection: the handler's position and locals, the     *)
(*              transports, the replies written to the client, the two     *)
(*              copy goroutines, the timer; and, where the client's bytes  *)
(*              are followed (SpecStream), stream: all the bytes the       *)
(*              client sends, rest: those of them no read has returned     *)
(*              yet, toPeer: the bytes written to the peer                 *)
(***************************************************************************)
VARIABLES sLis, sClosed, sWg, lisState, runPc, runConn, restarted,
          nAccepted, sdPc, crashed, sess

vars == <<sLis, sClosed, sWg, lisState, runPc, runConn, restarted,
          nAccepted, sdPc, crashed, sess>>

serverVars == <<sLis, sClosed, sWg, lisState, runPc, runConn, restarted,
                nAccepted, sdPc>>

NoSession ==
    [pc |-> "none", client |-> "none", buf |-> << >>, req |-> NoRequest,
     estErr |-> "none", err |-> "none", remote |-> "none",
     remoteIP |-> << >>, remotePort |-> 0,
     blis |-> "none", blisPort |-> 0, timer |-> "none",
     replies |-> << >>, c2p |-> "idle", p2c |-> "idle",
     panicking |-> FALSE,
     stream |-> << >>, rest |-> << >>, toPeer |-> << >>]

Init ==
    /\ sLis = "nil"
    /\ sClosed = FALSE
    /\ sWg = 0
    /\ lisState = "none"
    /\ runPc = "idle"
    /\ runConn = 0
    /\ restarted = FALSE
    /\ nAccepted = 0
    /\ sdPc = "idle"
    /\ crashed = FALSE
    /\ sess = [c \in Conns |-> NoSession]

(***************************************************************************)
(* Server.Run, src/server.go:59-85.  Run is called when no call of it is   *)
(* running; a call that returned may be followed by another.               *)
(***************************************************************************)
\* line 60-63: net.Listen; it fails (Run returns the error) or it gives a new
\* listener (the one of the call before is closed: that call returned)
RunListen ==
    /\ ~crashed
    /\ runPc = "idle"
    /\ \/ /\ lisState' = "open"
          /\ sLis' = IF sLis = "nil" THEN "nil" ELSE "stale"
          /\ restarted' = (lisState # "none")
          /\ runPc' = "setLis"
       \/ /\ lisState = "none"
          /\ UNCHANGED <<lisState, sLis, restarted, runPc>>
    /\ UNCHANGED <<sClosed, sWg, runConn, nAccepted, sdPc, crashed, sess>>

\* line 64: s.lis = lis
RunSetLis ==
    /\ ~crashed
    /\ runPc = "setLis"
    /\ sLis' = "cur"
    /\ runPc' = "setClosed"
    /\ UNCHANGED <<sClosed, sWg, lisState, runConn, restarted, nAccepted,
                   sdPc, crashed, sess>>

\* line 65: s.closed = false
RunSetClosed ==
    /\ ~crashed
    /\ runPc = "setClosed"
    /\ sClosed' = FALSE
    /\ runPc' = "setWg"
    /\ UNCHANGED <<sLis, sWg, lisState, runConn, restarted, nAccepted,
                   sdPc, crashed, sess>>

\* line 66-68: s.wg = sync.WaitGroup{}; defer lis.Close()
RunSetWg ==
    /\ ~crashed
    /\ runPc = "setWg"
    /\ sWg' = 0
    /\ runPc' = "accept"
    /\ UNCHANGED <<sLis, sClosed, lisState, runConn, restarted, nAccepted,
                   sdPc, crashed, sess>>

\* line 71, 79: lis.Accept() returns a connection
RunAcceptOk ==
    /\ ~crashed
    /\ runPc = "accept"
    /\ lisState = "open"
    /\ nAccepted < MaxConns
    /\ nAccepted' = nAccepted + 1
    /\ runConn' = nAccepted + 1
    /\ sess' = [sess EXCEPT ![nAccepted + 1] =
                    [@ EXCEPT !.pc = "accepted", !.client = "open"]]
    /\ runPc' = "add"
    /\ UNCHANGED <<sLis, sClosed, sWg, lisState, restarted, sdPc, crashed>>

\* line 71-72: lis.Accept() returns an error: the listener is closed, or the
\* accept failed for another reason while it is open
RunAcceptErr ==
    /\ ~crashed
    /\ runPc = "accept"
    /\ runPc' = "acceptErr"
    /\ UNCHANGED <<sLis, sClosed, sWg, lisState, runConn, restarted,
                   nAccepted, sdPc, crashed, sess>>

\* line 73-77: break when s.closed, else log and continue
RunCheckClosed ==
    /\ ~crashed
    /\ runPc = "acceptErr"
    /\ runPc' = IF sClosed THEN "return" ELSE "accept"
    /\ UNCHANGED <<sLis, sClosed, sWg, lisState, runConn, restarted,
                   nAccepted, sdPc, crashed, sess>>

\* line 80: s.wg.Add(1)
RunAdd ==
    /\ ~crashed
    /\ runPc = "add"
    /\ sWg' = sWg + 1
    /\ runPc' = "spawn"
    /\ UNCHANGED <<sLis, sClosed, lisState, runConn, restarted, nAccepted,
                   sdPc, crashed, sess>>

\* line 81: go s.handleConn(conn)
RunSpawn ==
    /\ ~crashed
    /\ runPc = "spawn"
    /\ sess' = [sess EXCEPT ![runConn] = [@ EXCEPT !.pc = "read"]]
    /\ runConn' = 0
    /\ runPc' = "accept"
    /\ UNCHANGED <<sLis, sClosed, sWg, lisState, restarted, nAccepted,
                   sdPc, crashed>>

\* a Run that would clear the draining flag itself when its loop has ended
RunReturnClearing ==
    /\ ~crashed
    /\ runPc = "return"
    /\ lisState' = "closed"
    /\ sClosed' = FALSE
    /\ runPc' = "idle"
    /\ UNCHANGED <<sLis, sWg, runConn, restarted, nAccepted,
                   sdPc, crashed, sess>>

\* line 67 (deferred lis.Close()) and line 84: Run returns
RunReturn ==
    /\ ~crashed
    /\ runPc = "return"
    /\ lisState' = "closed"
    /\ runPc' = "idle"
    /\ UNCHANGED <<sLis, sClosed, sWg, runConn, restarted, nAccepted,
                   sdPc, crashed, sess>>

(***************************************************************************)
(* Server.ShutDown, src/server.go:89-101, called once.                     *)
(***************************************************************************)
\* line 90-92: a server that was never started is refused
SdCheck ==
    /\ ~crashed
    /\ sdPc = "idle"
    /\ sdPc' = IF sLis = "nil" THEN "failed" ELSE "setClosed"
    /\ UNCHANGED <<sLis, sClosed, sWg, lisState, runPc, runConn, restarted,
                   nAccepted, crashed, sess>>

\* line 93: s.closed = true
SdSetClosed ==
    /\ ~crashed
    /\ sdPc = "setClosed"
    /\ sClosed' = TRUE
    /\ sdPc' = "close"
    /\ UNCHANGED <<sLis, sWg, lisState, runPc, runConn, restarted,
                   nAccepted, crashed, sess>>

\* line 94-96: s.lis.Close(); closing a closed listener is an error, returned
SdClose ==
    /\ ~crashed
    /\ sdPc = "close"
    /\ IF sLis = "cur" /\ lisState = "open"
       THEN /\ lisState' = "closed"
            /\ sdPc' = "wait"
       ELSE /\ UNCHANGED lisState
            /\ sdPc' = "failed"
    /\ UNCHANGED <<sLis, sClosed, sWg, runPc, runConn, restarted,
                   nAccepted, crashed, sess>>

\* line 98-100: s.wg.Wait() returns when the counter is zero
SdWait ==
    /\ ~crashed
    /\ sdPc = "wait"
    /\ sWg = 0
    /\ sdPc' = "done"
    /\ UNCHANGED <<sLis, sClosed, sWg, lisState, runPc, runConn, restarted,
                   nAccepted, crashed, sess>>

(***************************************************************************)
(* The session handler, src/server.go:104-243.  Steps of the handler of    *)
(* connection c.  A write to the client is recorded in replies with its    *)
(* outcome: ok is FALSE when conn.Write returned an error.                 *)
(***************************************************************************)
Written(s, bytes, ok) ==
    [s EXCEPT !.replies = Append(@, [bytes |-> bytes, ok |-> ok])]

\* a variant of ErrorExit in which the deferred s.wg.Done() does not run
ErrorExitNoDone(s, e) == [s EXCEPT !.err = e, !.pc = "deferClose"]

\* establishProxy returns (nil, error): handleConn logs it and returns, line
\* 109-112, and its deferred calls run
ErrorExit(s, e) == [s EXCEPT !.err = e, !.pc = "deferDone"]

\* a run-time panic in the handler goroutine: its deferred calls run and,
\* nothing recovering it, the process dies
PanicExit(s) == [s EXCEPT !.panicking = TRUE, !.pc = "deferDone"]

\* a variant of RemoteClose that leaves the peer connection as it is
RemoteCloseLeaking(s) == s

\* remote.Close(): a method call on the nil interface value panics
RemoteClose(s) ==
    IF s.remote = "none" THEN PanicExit(s) ELSE [s EXCEPT !.remote = "closed"]

\* a variant of RejectedReply that carries the status of a granted request
RejectedReplyGranted == Reply(Granted, 0, NilIP)

\* line 136, 146: Reply{Cd: RejectOrFailure}
RejectedReply == Reply(RejectOrFailure, 0, NilIP)

\* a variant of FirstBindReply that leaves the port out
FirstBindReplyNoPort(port) == Reply(Granted, 0, NilIP)

\* establishBind line 203: Reply{Cd: Granted, Port: addr.Port}
FirstBindReply(port) == Reply(Granted, port, NilIP)

\* a variant of DecodeFailure that answers a request it could not decode
DecodeFailureRejecting(s, req) ==
    ErrorExit(Written([s EXCEPT !.req = req],
                      ToBytes(Reply(RejectOrFailure, 0, NilIP)), TRUE),
              "decode")

\* line 128-130: ParseRequest failed: establishProxy returns its error
DecodeFailure(s, req) == ErrorExit([s EXCEPT !.req = req], "decode")

\* line 121-125: the one conn.Read of the handshake
HandshakeRead(c) ==
    /\ ~crashed
    /\ sess[c].pc = "read"
    /\ \/ sess' = [sess EXCEPT ![c] = ErrorExit(@, "read")]
       \/ \E b \in Inputs :
             /\ Len(b) <= ReadBufLen
             /\ sess' = [sess EXCEPT ![c] = [@ EXCEPT !.buf = b, !.pc = "parse"]]
    /\ UNCHANGED <<serverVars, crashed>>

\* line 127-133, 143, 153-155: ParseRequest(b[:n]) and the dispatch on req.Cmd
Decode(c) ==
    /\ ~crashed
    /\ sess[c].pc = "parse"
    /\ LET req == ParseRequest(sess[c].buf) IN
       sess' = [sess EXCEPT ![c] =
                  IF req.err # "none" THEN DecodeFailure(@, req)
                  ELSE IF req.Cmd = CmdConnect
                       THEN [@ EXCEPT !.req = req, !.pc = "dial"]
                  ELSE IF req.Cmd = CmdBind
                       THEN [@ EXCEPT !.req = req, !.pc = "bindListen"]
                  ELSE ErrorExit([@ EXCEPT !.req = req], "command")]
    /\ UNCHANGED <<serverVars, crashed>>

\* line 134 and establishConnect, line 179-186: the single net.Dial
Dial(c) ==
    /\ ~crashed
    /\ sess[c].pc = "dial"
    /\ \/ \E ip \in LocalIPs, p \in DialPorts :
             sess' = [sess EXCEPT ![c] =
                        [@ EXCEPT !.remote = "open", !.remoteIP = ip,
                                  !.remotePort = p, !.pc = "reply"]]
       \/ sess' = [sess EXCEPT ![c] =
                     [@ EXCEPT !.estErr = "dial", !.pc = "rejectConnect"]]
    /\ UNCHANGED <<serverVars, crashed>>

\* line 137: the test after the reply write of the CONNECT branch reads err,
\* the dial error, and not wErr
ConnectRejectTest(err, wErr) == err # "none"

\* line 147: the test of the BIND branch reads wErr
BindRejectTest(err, wErr) == wErr # "none"

\* line 135-142: the dial failed: write a REJECTED_OR_FAILED reply, then test
RejectConnect(c) ==
    /\ ~crashed
    /\ sess[c].pc = "rejectConnect"
    /\ \E ok \in BOOLEAN :
         LET w == Written(sess[c], ToBytes(RejectedReply), ok)
             wErr == IF ok THEN "none" ELSE "write"
         IN  sess' = [sess EXCEPT ![c] =
                        IF ConnectRejectTest(w.estErr, wErr)
                        THEN LET r == RemoteClose(w) IN
                             IF r.panicking THEN r ELSE ErrorExit(r, "replyWrite")
                        ELSE ErrorExit(w, "dial")]
    /\ UNCHANGED <<serverVars, crashed>>

\* establishBind line 191-200: net.Listen("tcp", "") on an ephemeral port
BindListen(c) ==
    /\ ~crashed
    /\ sess[c].pc = "bindListen"
    /\ \/ \E p \in EphemeralPorts :
             sess' = [sess EXCEPT ![c] =
                        [@ EXCEPT !.blis = "open", !.blisPort = p,
                                  !.pc = "bindReply1"]]
       \/ sess' = [sess EXCEPT ![c] =
                     [@ EXCEPT !.estErr = "listen", !.pc = "rejectBind"]]
    /\ UNCHANGED <<serverVars, crashed>>

\* establishBind line 202-211: the first reply; when it is written the timer
\* goroutine is started, when not the deferred lis.Close() runs
BindFirstReply(c) ==
    /\ ~crashed
    /\ sess[c].pc = "bindReply1"
    /\ \E ok \in BOOLEAN :
         LET w == Written(sess[c], ToBytes(FirstBindReply(sess[c].blisPort)), ok)
         IN  sess' = [sess EXCEPT ![c] =
                        IF ok
                        THEN [w EXCEPT !.timer = "armed", !.pc = "bindAccept"]
                        ELSE [w EXCEPT !.blis = "closed", !.estErr = "write",
                                       !.pc = "rejectBind"]]
    /\ UNCHANGED <<serverVars, crashed>>

\* establishBind line 208-211: time.Sleep(120 * time.Second); lis.Close().
\* Closing a listener that is closed already changes nothing: that step is
\* left out
TimerFire(c) ==
    /\ ~crashed
    /\ sess[c].timer = "armed"
    /\ sess[c].blis = "open"
    /\ sess' = [sess EXCEPT ![c] = [@ EXCEPT !.timer = "fired", !.blis = "closed"]]
    /\ UNCHANGED <<serverVars, crashed>>

\* a variant of BindAcceptOk without the deferred lis.Close()
BindAcceptOkListening(c) ==
    /\ ~crashed
    /\ sess[c].pc = "bindAccept"
    /\ sess[c].blis = "open"
    /\ \E ip \in LocalIPs :
         sess' = [sess EXCEPT ![c] =
                    [@ EXCEPT !.remote = "open", !.remoteIP = ip,
                              !.remotePort = sess[c].blisPort, !.pc = "reply"]]
    /\ UNCHANGED <<serverVars, crashed>>

\* establishBind line 213, 222 and the deferred lis.Close() of line 195: an
\* inbound connection arrived; its local port is the listener's
BindAcceptOk(c) ==
    /\ ~crashed
    /\ sess[c].pc = "bindAccept"
    /\ sess[c].blis = "open"
    /\ \E ip \in LocalIPs :
         sess' = [sess EXCEPT ![c] =
                    [@ EXCEPT !.remote = "open", !.remoteIP = ip,
                              !.remotePort = sess[c].blisPort, !.blis = "closed",
                              !.pc = "reply"]]
    /\ UNCHANGED <<serverVars, crashed>>

\* establishBind line 213-216 and the deferred lis.Close(): Accept failed,
\* because the timer closed the listener or for another reason
BindAcceptErr(c) ==
    /\ ~crashed
    /\ sess[c].pc = "bindAccept"
    /\ sess' = [sess EXCEPT ![c] =
                  [@ EXCEPT !.estErr = IF sess[c].blis = "closed" THEN "timeout"
                                                            ELSE "accept",
                            !.blis = "closed", !.pc = "rejectBind"]]
    /\ UNCHANGED <<serverVars, crashed>>

\* line 145-152: establishBind failed: write a REJECTED_OR_FAILED reply, then
\* test
RejectBind(c) ==
    /\ ~crashed
    /\ sess[c].pc = "rejectBind"
    /\ \E ok \in BOOLEAN :
         LET w == Written(sess[c], ToBytes(RejectedReply), ok)
             wErr == IF ok THEN "none" ELSE "write"
         IN  sess' = [sess EXCEPT ![c] =
                        IF BindRejectTest(w.estErr, wErr)
                        THEN LET r == RemoteClose(w) IN
                             IF r.panicking THEN r ELSE ErrorExit(r, "replyWrite")
                        ELSE ErrorExit(w, "bind")]
    /\ UNCHANGED <<serverVars, crashed>>

\* a variant of FinalReply that carries the status of a rejected request
FinalReplyRejected(ip, port) ==
    Reply(RejectOrFailure, port, To4(ParseIPOfString(ip)))

\* line 157-168: the reply built from the peer connection's local address
FinalReply(ip, port) == Reply(Granted, port, To4(ParseIPOfString(ip)))

\* a variant of AfterFinalReply that does not look at the write's error
AfterFinalReplyUnchecked(w, ok) == [w EXCEPT !.pc = "transfer"]

\* line 169-174: a failed write closes the peer and is returned; after a
\* successful one establishProxy returns the peer
AfterFinalReply(w, ok) ==
    IF ok THEN [w EXCEPT !.pc = "transfer"]
    ELSE ErrorExit(RemoteClose(w), "replyWrite")

\* line 157-174: write the final GRANTED reply
WriteFinalReply(c) ==
    /\ ~crashed
    /\ sess[c].pc = "reply"
    /\ \E ok \in BOOLEAN :
         LET w == Written(sess[c],
                          ToBytes(FinalReply(sess[c].remoteIP, sess[c].remotePort)),
                          ok)
         IN  sess' = [sess EXCEPT ![c] = AfterFinalReply(w, ok)]
    /\ UNCHANGED <<serverVars, crashed>>

\* handleConn line 113-116 and transfer line 226-239: the two copy goroutines
\* are started
TransferStart(c) ==
    /\ ~crashed
    /\ sess[c].pc = "transfer"
    /\ sess' = [sess EXCEPT ![c] =
                  [@ EXCEPT !.c2p = "running", !.p2c = "running",
                            !.pc = "relayWait"]]
    /\ UNCHANGED <<serverVars, crashed>>

\* transfer line 236-239: io.Copy(remote, client) ends (end of stream or an
\* error); wg.Done()
CopyClientToPeerEnd(c) ==
    /\ ~crashed
    /\ sess[c].c2p = "running"
    /\ sess' = [sess EXCEPT ![c] = [@ EXCEPT !.c2p = "done"]]
    /\ UNCHANGED <<serverVars, crashed>>

\* transfer line 232-235: io.Copy(client, remote) ends; wg.Done()
CopyPeerToClientEnd(c) ==
    /\ ~crashed
    /\ sess[c].p2c = "running"
    /\ sess' = [sess EXCEPT ![c] = [@ EXCEPT !.p2c = "done"]]
    /\ UNCHANGED <<serverVars, crashed>>

\* a variant of RelayFinished that waits for one copy only
RelayFinishedEither(s) == s.c2p = "done" \/ s.p2c = "done"

\* transfer line 229-230, 241: wg.Add(2) and wg.Wait(): both copies called
\* wg.Done()
RelayFinished(s) == s.c2p = "done" /\ s.p2c = "done"

\* transfer line 241-243: wg.Wait() returns when both copies are done
TransferReturn(c) ==
    /\ ~crashed
    /\ sess[c].pc = "relayWait"
    /\ RelayFinished(sess[c])
    /\ sess' = [sess EXCEPT ![c] = [@ EXCEPT !.pc = "deferRemote"]]
    /\ UNCHANGED <<serverVars, crashed>>

\* handleConn line 113: the deferred remote.Close()
DeferRemoteClose(c) ==
    /\ ~crashed
    /\ sess[c].pc = "deferRemote"
    /\ sess' = [sess EXCEPT ![c] = [@ EXCEPT !.remote = "closed", !.pc = "deferDone"]]
    /\ UNCHANGED <<serverVars, crashed>>

\* handleConn line 106: the deferred s.wg.Done(); a counter that would go
\* negative panics
DeferDone(c) ==
    /\ ~crashed
    /\ sess[c].pc = "deferDone"
    /\ IF sWg > 0
       THEN /\ sWg' = sWg - 1
            /\ sess' = [sess EXCEPT ![c] = [@ EXCEPT !.pc = "deferClose"]]
       ELSE /\ UNCHANGED sWg
            /\ sess' = [sess EXCEPT ![c] =
                          [@ EXCEPT !.panicking = TRUE, !.pc = "deferClose"]]
    /\ UNCHANGED <<sLis, sClosed, lisState, runPc, runConn, restarted,
                   nAccepted, sdPc, crashed>>

\* handleConn line 105: the deferred conn.Close(); the handler ends, and a
\* panicking handler takes the process down
DeferConnClose(c) ==
    /\ ~crashed
    /\ sess[c].pc = "deferClose"
    /\ sess' = [sess EXCEPT ![c] = [@ EXCEPT !.client = "closed", !.pc = "ended"]]
    /\ crashed' = sess[c].panicking
    /\ UNCHANGED serverVars

Next ==
    \/ RunListen
    \/ RunSetLis
    \/ RunSetClosed
    \/ RunSetWg
    \/ RunAcceptOk
    \/ RunAcceptErr
    \/ RunCheckClosed
    \/ RunAdd
    \/ RunSpawn
    \/ RunReturn
    \/ SdCheck
    \/ SdSetClosed
    \/ SdClose
    \/ SdWait
    \/ \E c \in Conns : HandshakeRead(c)
    \/ \E c \in Conns : Decode(c)
    \/ \E c \in Conns : Dial(c)
    \/ \E c \in Conns : RejectConnect(c)
    \/ \E c \in Conns : BindListen(c)
    \/ \E c \in Conns : BindFirstReply(c)
    \/ \E c \in Conns : TimerFire(c)
    \/ \E c \in Conns : BindAcceptOk(c)
    \/ \E c \in Conns : BindAcceptErr(c)
    \/ \E c \in Conns : RejectBind(c)
    \/ \E c \in Conns : WriteFinalReply(c)
    \/ \E c \in Conns : TransferStart(c)
    \/ \E c \in Conns : CopyClientToPeerEnd(c)
    \/ \E c \in Conns : CopyPeerToClientEnd(c)
    \/ \E c \in Conns : TransferReturn(c)
    \/ \E c \in Conns : DeferRemoteClose(c)
    \/ \E c \in Conns : DeferDone(c)
    \/ \E c \in Conns : DeferConnClose(c)

Spec == Init /\ [][Next]_vars

(***************************************************************************)
(* The codec on its own: ParseRequest applied to what a client can send.   *)
(* The server is listening, connection 1 was accepted and handed to its    *)
(* handler, and the handshake read has returned some bytes; the one step   *)
(* is the decoding of them (establishProxy line 127).                      *)
(***************************************************************************)
CodecVersions == {0, 4, 5}
CodecCommands == {0, 1, 2, 3}
\* DSTPORT, two bytes: 80, 256, 65535
CodecPorts == {<<0, 80>>, <<1, 0>>, <<255, 255>>}
\* DSTIP, four bytes
CodecIPs ==
    {<<7, 7, 7, 7>>, <<0, 0, 0, 1>>, <<0, 0, 0, 0>>, <<0, 0, 1, 0>>,
     <<10, 0, 200, 255>>}
\* what follows DSTIP: nothing, an empty user id, the user id "A" with and
\* without its NUL, and user id and domain name of SOCKS 4A
CodecTails ==
    {<< >>, <<0>>, <<65, 0>>, <<65>>, <<0, 97, 0>>, <<65, 0, 97, 46, 98, 0>>}

CodecInputs ==
    Inputs \cup
    { <<v, cd>> \o p \o ip \o t :
        v \in CodecVersions, cd \in CodecCommands, p \in CodecPorts,
        ip \in CodecIPs, t \in CodecTails }

CodecInit ==
    /\ sLis = "cur"
    /\ sClosed = FALSE
    /\ sWg = 1
    /\ lisState = "open"
    /\ runPc = "accept"
    /\ runConn = 0
    /\ restarted = FALSE
    /\ nAccepted = 1
    /\ sdPc = "idle"
    /\ crashed = FALSE
    /\ \E b \in CodecInputs :
         sess = [c \in Conns |->
                   IF c = 1
                   THEN [NoSession EXCEPT !.pc = "parse", !.client = "open",
                                          !.buf = b]
                   ELSE NoSession]

CodecNext == \E c \in Conns : Decode(c)

SpecCodec == CodecInit /\ [][CodecNext]_vars

(***************************************************************************)
(* The client's byte stream followed through a session.  The handshake     *)
(* read returns a prefix of what the client sends, at most ReadBufLen      *)
(* bytes of it; io.Copy(remote, client) of the relay reads on from there.  *)
(* ShutDown is not called here, so Run does not return.                    *)
(***************************************************************************)
\* a user id of 34 bytes "A"
LongUserId == [i \in 1..34 |-> 65]

\* a CONNECT request followed by the payload "hi"
StreamConnect == ReqConnect \o <<104, 105>>
\* a BIND request followed by the payload "h"
StreamBind == ReqBind \o <<104>>
\* a CONNECT request of 43 bytes: 8 bytes, the long user id, NUL
StreamLong == <<4, 1, 0, 80, 7, 7, 7, 7>> \o LongUserId \o <<0>>

Streams == {StreamConnect, StreamBind, StreamLong}

\* the byte counts one conn.Read into the buffer of line 121 can return
ReadLens(s) ==
    {n \in 1..Len(s) : n <= ReadBufLen /\ Len(s) - n <= MaxUnread}

\* a variant of Unread in which the read takes all the client has sent
UnreadNothing(s, n) == << >>

\* what is left of the stream s after a read that returned n bytes
Unread(s, n) == SubSeq(s, n + 1, Len(s))

\* line 121-125: the one conn.Read of the handshake, b[:n] of the stream
HandshakeReadStream(c) ==
    /\ ~crashed
    /\ sess[c].pc = "read"
    /\ \/ sess' = [sess EXCEPT ![c] = ErrorExit(@, "read")]
       \/ \E s \in Streams : \E n \in ReadLens(s) :
             sess' = [sess EXCEPT ![c] =
                        [@ EXCEPT !.stream = s, !.buf = SubSeq(s, 1, n),
                                  !.rest = Unread(s, n), !.pc = "parse"]]
    /\ UNCHANGED <<serverVars, crashed>>

\* transfer line 237: io.Copy(remote, client) reads the next byte of the
\* client and writes it to the peer
CopyClientToPeerByte(c) ==
    /\ ~crashed
    /\ sess[c].c2p = "running"
    /\ sess[c].rest # << >>
    /\ sess' = [sess EXCEPT ![c] =
                  [@ EXCEPT !.toPeer = Append(@, Head(sess[c].rest)),
                            !.rest = Tail(@)]]
    /\ UNCHANGED <<serverVars, crashed>>

StreamNext ==
    \/ RunListen
    \/ RunSetLis
    \/ RunSetClosed
    \/ RunSetWg
    \/ RunAcceptOk
    \/ RunAcceptErr
    \/ RunCheckClosed
    \/ RunAdd
    \/ RunSpawn
    \/ \E c \in Conns : HandshakeReadStream(c)
    \/ \E c \in Conns : Decode(c)
    \/ \E c \in Conns : Dial(c)
    \/ \E c \in Conns : RejectConnect(c)
    \/ \E c \in Conns : BindListen(c)
    \/ \E c \in Conns : BindFirstReply(c)
    \/ \E c \in Conns : TimerFire(c)
    \/ \E c \in Conns : BindAcceptOk(c)
    \/ \E c \in Conns : BindAcceptErr(c)
    \/ \E c \in Conns : RejectBind(c)
    \/ \E c \in Conns : WriteFinalReply(c)
    \/ \E c \in Conns : TransferStart(c)
    \/ \E c \in Conns : CopyClientToPeerByte(c)
    \/ \E c \in Conns : CopyClientToPeerEnd(c)
    \/ \E c \in Conns : CopyPeerToClientEnd(c)
    \/ \E c \in Conns : TransferReturn(c)
    \/ \E c \in Conns : DeferRemoteClose(c)
    \/ \E c \in Conns : DeferDone(c)
    \/ \E c \in Conns : DeferConnClose(c)

SpecStream == Init /\ [][StreamNext]_vars

(***************************************************************************)
(* Vocabulary of the properties.                                           *)
(***************************************************************************)
\* the handler goroutine of connection c exists and has not ended
HandlerRunning(c) == sess[c].pc \notin {"none", "accepted", "ended"}

\* a copy goroutine of the relay of connection c is running
CopyRunning(c) == sess[c].c2p = "running" \/ sess[c].p2c = "running"

\* the relay of connection c was started
RelayStarted(c) == sess[c].c2p # "idle" \/ sess[c].p2c # "idle"

\* the handler of connection c is past its handshake read and decode
Decoded(c) == sess[c].buf # << >> /\ sess[c].pc # "parse"

\* the handler of connection c left establishProxy with an error, or panicked
Exiting(c) == sess[c].pc \in {"deferDone", "deferClose", "ended"}

\* the status byte of an encoded reply
StatusOf(bytes) == bytes[2]

\* the port field of an encoded reply
PortOf(bytes) == BigEndianUint16(bytes[3], bytes[4])

(***************************************************************************)
(* C1.  Once the single ShutDown call has returned nil, the main listener  *)
(* is closed and no handler or relay copy of a connection that Accept      *)
(* returned is running (and, the property being an invariant, none starts  *)
(* later).  Stated for a server whose Run was called once.                 *)
(***************************************************************************)
C1_ShutDownDrains ==
    (sdPc = "done" /\ ~restarted /\ ~crashed) =>
        /\ lisState = "closed"
        /\ \A c \in Conns : ~HandlerRunning(c) /\ ~CopyRunning(c)

(***************************************************************************)
(* C2.  A session-level failure never terminates the server process: in    *)
(* no reachable state has a failed session taken the process down.         *)
(***************************************************************************)
C2_SessionFailureIsLocal ==
    (\E c \in Conns : sess[c].err # "none" \/ sess[c].estErr # "none")
        => ~crashed

(***************************************************************************)
(* C3.  A CONNECT session whose dial failed writes one REJECTED_OR_FAILED  *)
(* reply and leaves establishProxy with an error (the dial error, or the   *)
(* failure to write the reply); it does not panic, no relay starts and the *)
(* client transport is closed when the handler has ended.                  *)
(***************************************************************************)
C3_DialFailureReported ==
    \A c \in Conns :
        (sess[c].estErr = "dial" /\ Exiting(c)) =>
            /\ sess[c].err \in {"dial", "replyWrite"}
            /\ ~sess[c].panicking
            /\ Len(sess[c].replies) = 1
            /\ StatusOf(sess[c].replies[1].bytes) = RejectOrFailure
            /\ ~RelayStarted(c)
            /\ (sess[c].pc = "ended" => sess[c].client = "closed")

(***************************************************************************)
(* C7.  Every reply written to a client is exactly 8 bytes long.           *)
(***************************************************************************)
C7_RepliesAre8Bytes ==
    \A c \in Conns :
        \A i \in 1..Len(sess[c].replies) : Len(sess[c].replies[i].bytes) = 8

\* connection c carries a decoded BIND request
IsBind(c) == sess[c].req.err = "none" /\ sess[c].req.Cmd = CmdBind

\* the BIND wait of connection c ended because the timer closed the listener
TimedOut(c) == sess[c].estErr = "timeout"

\* the bytes of an encoded reply after its status and port
AddressOf(bytes) == SubSeq(bytes, 5, Len(bytes))

\* the handshake read of connection c failed, or returned bytes ParseRequest
\* rejects
Undecodable(c) ==
    \/ sess[c].err = "read"
    \/ sess[c].buf # << >> /\ ParseRequest(sess[c].buf).err # "none"

C6_SentinelBindIsLiteral ==
    \A c \in Conns :
        (sess[c].buf = ReqBindSentinel /\ Decoded(c)) =>
            /\ sess[c].req.err = "none"
            /\ sess[c].req.Cmd = CmdBind
            /\ ~sess[c].req.IsV4A
            /\ sess[c].err # "decode"

(***************************************************************************)
(* C6, amended.  The request 04 02 00 00 00 00 00 01 00 is taken for the   *)
(* SOCKS 4A form, and its decoding fails (the byte after offset 8 splits   *)
(* into two pieces, not three): no listener is opened, no reply is         *)
(* written, there is no peer and no relay, and the client transport is     *)
(* closed when the handler has ended.                                      *)
(***************************************************************************)
C6_SentinelBindRejected ==
    \A c \in Conns :
        (sess[c].buf = ReqBindSentinel /\ Decoded(c)) =>
            /\ sess[c].req.err = "v4a"
            /\ sess[c].req.IsV4A
            /\ sess[c].err = "decode"
            /\ sess[c].blis = "none"
            /\ sess[c].replies = << >>
            /\ sess[c].remote = "none"
            /\ ~RelayStarted(c)
            /\ (sess[c].pc = "ended" => sess[c].client = "closed")

\* a session read that request and its handler has ended
C6_Witness ==
    \E c \in Conns :
        /\ sess[c].buf = ReqBindSentinel
        /\ sess[c].pc = "ended"
        /\ sess[c].client = "closed"

(***************************************************************************)
(* C8.  A session whose handshake read failed or whose request cannot be   *)
(* decoded never writes a reply, never dials and never listens, and its    *)
(* client transport is closed when the handler has ended.                  *)
(***************************************************************************)
C8_UndecodableGetsNoReply ==
    \A c \in Conns :
        Undecodable(c) =>
            /\ sess[c].replies = << >>
            /\ sess[c].remote = "none"
            /\ sess[c].blis = "none"
            /\ sess[c].estErr = "none"
            /\ ~RelayStarted(c)
            /\ sess[c].pc \in {"parse", "deferDone", "deferClose", "ended"}
            /\ (sess[c].pc = "ended" => sess[c].client = "closed")

\* a session read a 5 byte request and its handler has ended
C8_Witness ==
    \E c \in Conns :
        /\ sess[c].buf = ReqShort
        /\ sess[c].err = "decode"
        /\ sess[c].pc = "ended"

(***************************************************************************)
(* C9.  A relay copy exists only in a session whose request was decoded,   *)
(* whose peer connection was established and whose last reply, a GRANTED   *)
(* one, was written without error; a session in which a step of the        *)
(* handshake failed never starts a relay.                                  *)
(***************************************************************************)
C9_HandshakePrecedesRelay ==
    \A c \in Conns :
        /\ RelayStarted(c) =>
              /\ Decoded(c)
              /\ ParseRequest(sess[c].buf).err = "none"
              /\ sess[c].remote # "none"
              /\ sess[c].replies # << >>
              /\ \A i \in 1..Len(sess[c].replies) :
                    /\ sess[c].replies[i].ok
                    /\ StatusOf(sess[c].replies[i].bytes) = Granted
        /\ (sess[c].err # "none" \/ sess[c].estErr # "none") => ~RelayStarted(c)

\* a relay is running
C9_Witness ==
    \E c \in Conns :
        /\ sess[c].pc = "relayWait"
        /\ sess[c].c2p = "running"
        /\ sess[c].p2c = "running"

(***************************************************************************)
(* C10.  While a copy of a relay is running the handler waits in transfer  *)
(* and both transports are open, whichever copy ended first; the handler   *)
(* leaves transfer, and a transport is closed, only when both are done.    *)
(***************************************************************************)
C10_RelayWaitsForBoth ==
    \A c \in Conns :
        /\ CopyRunning(c) =>
              /\ sess[c].pc = "relayWait"
              /\ sess[c].client = "open"
              /\ sess[c].remote = "open"
        /\ (RelayStarted(c) /\ sess[c].pc # "relayWait") =>
              sess[c].c2p = "done" /\ sess[c].p2c = "done"
        /\ (RelayStarted(c) /\
            (sess[c].client = "closed" \/ sess[c].remote = "closed")) =>
              sess[c].c2p = "done" /\ sess[c].p2c = "done"

\* the copy from the peer ended, the copy from the client still runs
C10_Witness ==
    \E c \in Conns :
        /\ sess[c].p2c = "done"
        /\ sess[c].c2p = "running"
        /\ sess[c].client = "open"
        /\ sess[c].remote = "open"

\* the one ShutDown call has set the draining flag and closed the listener
ShutDownClosedListener == sdPc \in {"wait", "done"}

\* connection c carries a decoded CONNECT request
IsConnect(c) == sess[c].req.err = "none" /\ sess[c].req.Cmd = CmdConnect

(***************************************************************************)
(* C11.  For a server whose Run was called once: when the accept loop      *)
(* tests the draining flag after an Accept error (line 73) and ShutDown    *)
(* has already set the flag and closed the listener, the flag is set, so   *)
(* the loop ends there and does not call Accept on the closed listener     *)
(* again.                                                                  *)
(***************************************************************************)
C11_LoopEndsOnceDraining ==
    (ShutDownClosedListener /\ ~restarted /\ runPc = "acceptErr") => sClosed

\* connection c has no handler that is still at work on its relay or its
\* handshake: it was never handed to a handler, or its handler has called
\* s.wg.Done() already
SessionFinished(c) ==
    sess[c].pc \in {"none", "accepted", "deferClose", "ended"} /\ ~CopyRunning(c)

(***************************************************************************)
(* C12.  No step of ShutDown changes anything of a session (its client     *)
(* transport, its peer transport, its BIND listener), and ShutDown returns *)
(* once it has set the flag, only when every session handed to a handler   *)
(* has finished.                                                           *)
(***************************************************************************)
C12_ShutDownOnlyWaits ==
    [][ /\ (sdPc' # sdPc => sess' = sess)
        /\ (sdPc \in {"close", "wait"} /\ sdPc' \in {"done", "failed"}) =>
               \A c \in Conns : SessionFinished(c) ]_vars

\* the server has been shut down and its accept loop has ended
Stopped ==
    sdPc = "done" /\ runPc = "idle" /\ lisState = "closed" /\ sClosed

(***************************************************************************)
(* C13, as stated.  Once the server is stopped it stays stopped: no step   *)
(* opens a listener again or clears the draining flag.                     *)
(***************************************************************************)
C13_StoppedForEver ==
    [][Stopped => Stopped']_vars

(***************************************************************************)
(* C13, amended.  The listening state is entered, and the draining flag is *)
(* cleared, by a call of Run and by nothing else: a listener is opened     *)
(* only by the net.Listen of a Run that starts (line 60), the flag goes    *)
(* from set to clear only by line 65 of Run; ShutDown, the accept loop and *)
(* the handlers never do either.  A stopped server is restarted by Run.    *)
(***************************************************************************)
C13_OnlyRunRestarts ==
    [][ /\ (lisState # "open" /\ lisState' = "open") =>
               (runPc = "idle" /\ runPc' = "setLis")
        /\ (sClosed /\ ~sClosed') =>
               (runPc = "setClosed" /\ runPc' = "setWg") ]_vars

\* a server that was stopped is listening again, its flag cleared
C13_Witness ==
    /\ restarted
    /\ sdPc = "done"
    /\ runPc = "accept"
    /\ lisState = "open"
    /\ ~sClosed

\* the handler of CONNECT session c is past the statements of establishProxy
\* that write a reply (line 136 and line 168)
ConnectReplied(c) == sess[c].pc \notin {"dial", "rejectConnect", "reply"}

(***************************************************************************)
(* C14.  A CONNECT session whose request was decoded never has more than   *)
(* one reply written to its client; once establishProxy is past its reply  *)
(* statements exactly one was written, whatever happens later (relay, exit *)
(* or panic); that reply is GRANTED when the dial gave a peer connection   *)
(* and REJECTED_OR_FAILED when the dial failed.                            *)
(***************************************************************************)
C14_ConnectRepliesOnce ==
    \A c \in Conns :
        IsConnect(c) =>
            /\ Len(sess[c].replies) <= 1
            /\ ConnectReplied(c) => Len(sess[c].replies) = 1
            /\ Len(sess[c].replies) = 1 =>
                   StatusOf(sess[c].replies[1].bytes) =
                       IF sess[c].remote = "none" THEN RejectOrFailure
                                                  ELSE Granted
            /\ (sess[c].estErr = "dial") = (sess[c].pc # "dial" /\ sess[c].remote = "none")

\* a CONNECT session that was granted, relayed and ended with one reply
C14_Witness ==
    \E c \in Conns :
        /\ IsConnect(c)
        /\ sess[c].pc = "ended"
        /\ RelayStarted(c)
        /\ Len(sess[c].replies) = 1
        /\ StatusOf(sess[c].replies[1].bytes) = Granted

\* a byte sequence is a decimal numeral without sign and leading zero
IsDecimal(s) ==
    /\ Len(s) >= 1
    /\ \A i \in 1..Len(s) : s[i] \in 48..57
    /\ Len(s) > 1 => s[1] # 48

RECURSIVE Atoi(_)
\* the number a decimal numeral stands for
Atoi(s) ==
    IF s = << >> THEN 0
    ELSE 10 * Atoi(SubSeq(s, 1, Len(s) - 1)) + (s[Len(s)] - 48)

\* addr is the text "a.b.c.d:port" of the four bytes ip and the number port
IsDottedWithPort(addr, ip, port) ==
    LET hp == BytesSplit(addr, 58) IN
    /\ Len(hp) = 2
    /\ IsDecimal(hp[2]) /\ Atoi(hp[2]) = port
    /\ LET ds == BytesSplit(hp[1], 46) IN
       /\ Len(ds) = 4
       /\ \A i \in 1..4 : IsDecimal(ds[i]) /\ Atoi(ds[i]) = ip[i]

\* the bytes at offsets 4..7 are the SOCKS 4A pattern 0.0.0.x, x # 0
HasSentinel(b) == b[5] = 0 /\ b[6] = 0 /\ b[7] = 0 /\ b[8] # 0

\* b is long enough, has version 4 and the command CONNECT or BIND
WellHeaded(b) ==
    Len(b) >= 9 /\ b[1] = 4 /\ b[2] \in {1, 2}

(***************************************************************************)
(* C15.  For every decoded input of at least 9 bytes with version 4 and    *)
(* command CONNECT or BIND: IsV4A is true exactly when offsets 4, 5, 6 are *)
(* zero and offset 7 is not; otherwise decoding succeeds in the literal    *)
(* form, Port is the big-endian value of offsets 2-3 and Address is the    *)
(* dotted decimal text of offsets 4-7, a colon and that port in decimal.   *)
(***************************************************************************)
C15_FormSelection ==
    \A c \in Conns :
        (Decoded(c) /\ WellHeaded(sess[c].buf)) =>
            LET b == sess[c].buf
                r == sess[c].req
            IN  /\ r.IsV4A = HasSentinel(b)
                /\ ~HasSentinel(b) =>
                       /\ r.err = "none"
                       /\ r.Port = b[3] * 256 + b[4]
                       /\ IsDottedWithPort(r.Address, SubSeq(b, 5, 8), r.Port)

\* a literal-form request for 10.0.200.255, port 256, was decoded
C15_Witness ==
    \E c \in Conns :
        /\ Decoded(c)
        /\ WellHeaded(sess[c].buf)
        /\ SubSeq(sess[c].buf, 3, 8) = <<1, 0, 10, 0, 200, 255>>
        /\ ~sess[c].req.IsV4A
        /\ sess[c].req.Port = 256
        \* "10.0.200.255:256"
        /\ sess[c].req.Address =
               <<49, 48, 46, 48, 46, 50, 48, 48, 46, 50, 53, 53, 58, 50, 53, 54>>

(***************************************************************************)
(* C16, as stated.  Every decoded input whose first byte is not 4 fails    *)
(* with the unsupported-version error.                                     *)
(***************************************************************************)
C16_VersionErrorAlways ==
    \A c \in Conns :
        (Decoded(c) /\ sess[c].buf[1] # 4) => sess[c].req.err = "version"

(***************************************************************************)
(* C16, amended.  The length is tested before the version: a decoded input *)
(* of at least 9 bytes whose first byte is not 4 fails with the            *)
(* unsupported-version error and with no other; a decoded input of fewer   *)
(* than 9 bytes fails with the malformed-request error whatever its first  *)
(* byte is.                                                                *)
(***************************************************************************)
C16_VersionErrorWhenLongEnough ==
    \A c \in Conns :
        Decoded(c) =>
            /\ (Len(sess[c].buf) >= 9 /\ sess[c].buf[1] # 4) =>
                   sess[c].req.err = "version"
            /\ Len(sess[c].buf) < 9 => sess[c].req.err = "short"
            /\ sess[c].req.err # "none" => sess[c].err = "decode"

\* a 9 byte input of version 5 was refused for its version
C16_Witness ==
    \E c \in Conns :
        /\ Decoded(c)
        /\ Len(sess[c].buf) >= 9
        /\ sess[c].buf[1] = 5
        /\ sess[c].req.err = "version"
        /\ sess[c].replies = << >>

\* the last reply written to the client of connection c was a GRANTED one,
\* written when the peer connection existed, and the write failed
GrantedWriteFailed(c) ==
    LET n == Len(sess[c].replies) IN
    /\ n >= 1
    /\ ~sess[c].replies[n].ok
    /\ StatusOf(sess[c].replies[n].bytes) = Granted
    /\ sess[c].remote # "none"

(***************************************************************************)
(* C17.  When the write of a GRANTED reply fails with the peer connection  *)
(* open, the peer connection is closed, establishProxy returns the error,  *)
(* no relay starts and the client transport is closed when the handler has *)
(* ended; no session that left establishProxy with an error has an open    *)
(* peer connection.                                                        *)
(***************************************************************************)
C17_FailedGrantClosesPeer ==
    \A c \in Conns :
        /\ GrantedWriteFailed(c) =>
              /\ sess[c].remote = "closed"
              /\ sess[c].err = "replyWrite"
              /\ Exiting(c)
              /\ ~RelayStarted(c)
              /\ sess[c].pc = "ended" => sess[c].client = "closed"
        /\ (Exiting(c) /\ sess[c].err # "none") => sess[c].remote # "open"

\* a BIND session whose second reply could not be written has ended
C17_Witness ==
    \E c \in Conns :
        /\ IsBind(c)
        /\ Len(sess[c].replies) = 2
        /\ GrantedWriteFailed(c)
        /\ sess[c].pc = "ended"
        /\ sess[c].remote = "closed"
        /\ sess[c].client = "closed"

\* the handler of connection c is inside establishBind with its listener
InEstablishBind(c) == sess[c].pc \in {"bindReply1", "bindAccept"}

(***************************************************************************)
(* C18.  The listener of a BIND session is open only while the handler is  *)
(* inside establishBind: it is closed on every exit.  The handler comes to *)
(* the Accept call only from the first reply and never again once it left  *)
(* it, and a session gets a peer connection at most once.  The step of the *)
(* timer changes the timer and the BIND listener of its own session and    *)
(* nothing else: no peer, no client transport, not the main listener.      *)
(***************************************************************************)
C18_BindAcceptsOnce ==
    /\ [](\A c \in Conns : sess[c].blis = "open" => InEstablishBind(c))
    /\ [][\A c \in Conns :
            /\ (sess'[c].pc = "bindAccept" /\ sess[c].pc # "bindAccept") =>
                   sess[c].pc = "bindReply1"
            /\ (sess'[c].remote = "open" /\ sess[c].remote # "open") =>
                   sess[c].remote = "none"
            /\ (sess'[c].blis = "open" /\ sess[c].blis # "open") =>
                   sess[c].blis = "none"
            /\ (sess[c].timer = "armed" /\ sess'[c].timer = "fired") =>
                   /\ sess' = [sess EXCEPT ![c] =
                                 [@ EXCEPT !.timer = "fired", !.blis = "closed"]]
                   /\ UNCHANGED <<serverVars, crashed>>
       ]_vars

\* a BIND session took its one inbound connection: the listener is closed,
\* the relay runs and the timer is still to fire
C18_Witness ==
    \E c \in Conns :
        /\ IsBind(c)
        /\ sess[c].remote = "open"
        /\ sess[c].blis = "closed"
        /\ sess[c].timer = "armed"
        /\ CopyRunning(c)

\* the handler of connection c was started and has not yet called s.wg.Done()
Tracked(c) == sess[c].pc \notin {"none", "accepted", "deferClose", "ended"}

(***************************************************************************)
(* C19.  For a server whose Run was called once: the counter of s.wg is    *)
(* the number of handlers that were started and have not yet called Done,  *)
(* plus one while the accept loop is between s.wg.Add(1) and the go        *)
(* statement.  So the counter goes up by one per accepted connection       *)
(* before its handler starts, down by one when the handler ends on         *)
(* whatever path, is positive whenever a handler is about to call Done and *)
(* is never negative; the client transport of a handler that has ended is  *)
(* closed.                                                                 *)
(***************************************************************************)
C19_CounterTracksHandlers ==
    ~restarted =>
        /\ sWg = Cardinality({c \in Conns : Tracked(c)})
                   + (IF runPc = "spawn" THEN 1 ELSE 0)
        /\ sWg >= 0
        /\ \A c \in Conns :
              /\ sess[c].pc = "deferDone" => sWg > 0
              /\ sess[c].pc = "ended" => sess[c].client = "closed"
              /\ (sess[c].pc = "accepted" /\ runPc = "spawn") => runConn = c

\* a handler whose handshake read failed has ended: the counter is back at
\* zero and the client transport is closed
C19_Witness ==
    \E c \in Conns :
        /\ ~restarted
        /\ sess[c].pc = "ended"
        /\ sess[c].err = "read"
        /\ sess[c].client = "closed"
        /\ sWg = 0

\* the handshake read of connection c has returned bytes
HandshakeReadDone(c) == sess[c].buf # << >>

(***************************************************************************)
(* C20.  The handshake read returns at most 41 bytes and the request is    *)
(* decoded from exactly those bytes.  The bytes the read returned, the     *)
(* bytes written to the peer and the bytes not yet read are, in this       *)
(* order, the client's stream: nothing is dropped, repeated, changed or    *)
(* reordered, and nothing is written to the peer before the relay starts.  *)
(* The handshake buffer is filled once, by the read of line 122, and the   *)
(* client is read again only by the copy of a running relay.               *)
(***************************************************************************)
C20_OneReadThenRelay ==
    /\ [](\A c \in Conns :
            /\ Len(sess[c].buf) <= 41
            /\ ~RelayStarted(c) => sess[c].toPeer = << >>
            /\ HandshakeReadDone(c) =>
                  /\ sess[c].buf \o sess[c].toPeer \o sess[c].rest
                        = sess[c].stream
                  /\ sess[c].pc # "parse" =>
                        sess[c].req = ParseRequest(sess[c].buf))
    /\ [][\A c \in Conns :
            /\ sess'[c].buf # sess[c].buf =>
                   (sess[c].pc = "read" /\ sess[c].buf = << >>)
            /\ sess'[c].rest # sess[c].rest =>
                   (sess[c].pc = "read" \/ sess[c].c2p = "running")
       ]_vars

\* a 43 byte request: the read returned 41 bytes, the session was
\* established and the last two bytes went to the peer
C20_Witness ==
    \E c \in Conns :
        /\ Len(sess[c].stream) = 43
        /\ Len(sess[c].buf) = 41
        /\ IsConnect(c)
        /\ RelayStarted(c)
        /\ sess[c].rest = << >>
        /\ sess[c].toPeer = SubSeq(sess[c].stream, 42, 43)

=============================================================================
